---------------------------- MODULE Spec2Model ----------------------------
(***************************************************************************)
(* DRI3 backend of xf86-video-amdgpu (src/amdgpu_dri3.c).                  *)
(*                                                                         *)
(* The X server calls the entry points of amdgpu_dri3_screen_info one at a *)
(* time (single threaded, call and return).  Each action below is one      *)
(* whole call of one entry point; the record `call` holds the arguments,   *)
(* the returned value, the out-parameters and the sequence of collaborator *)
(* calls the handler made (`trace`).  The host takes the reply (Return)    *)
(* before it issues the next call.                                         *)
(*                                                                         *)
(* 64-bit modifiers are four 16-bit limbs, most significant first.         *)
(***************************************************************************)
EXTENDS Integers, Sequences, FiniteSets

VARIABLES
    render_node,   \* pAMDGPUEnt->render_node is non-NULL
    use_glamor,    \* info->use_glamor
    family,        \* info->family
    tables,        \* the file-scope / function-scope static arrays
    held,          \* the list the caller of a catalog entry point holds
    crashed,       \* the process faulted (undefined behaviour took that turn)
    pixmaps,       \* the host's pixmaps (surfaces), by slot
    rt,            \* descriptor being carried from an export into an import
    call           \* the call in progress / its reply, or the idle record

vars == << render_node, use_glamor, family, tables, held, crashed,
           pixmaps, rt, call >>

----------------------------------------------------------------------------
(* Bounds of the model *)

MaxPixmaps == 2
MaxPlanes == 2
MaxFd == 2
MinFamily == 139
MaxFamily == 153

----------------------------------------------------------------------------
(* Program constants *)

Success == 0
BadMatch == 8
BadAlloc == 11
NULL == 0
UINT16_MAX == 65535
AMDGPU_FAMILY_AI == 141
AMDGPU_FAMILY_NV == 143
AMDGPU_FAMILY_GC_12_0_0 == 152
AMD_FMT_MOD_TILE_VER_GFX9 == 1
AMD_FMT_MOD_TILE_VER_GFX10 == 2
AMD_FMT_MOD_TILE_VER_GFX12 == 5
AMD_FMT_MOD_TILE_GFX9_64K_S == 9
AMD_FMT_MOD_TILE_GFX9_64K_D == 10
AMD_FMT_MOD_TILE_GFX12_64K_2D == 3

(* uint64_t arithmetic on limbs *)
RECURSIVE BitOr(_, _)
BitOr(a, b) ==
    IF a = 0 THEN b
    ELSE IF b = 0 THEN a
    ELSE (IF a % 2 = 1 \/ b % 2 = 1 THEN 1 ELSE 0) + 2 * BitOr(a \div 2, b \div 2)

U64(n) == << 0, 0, 0, n >>
Or64(x, y) == [i \in 1..4 |-> BitOr(x[i], y[i])]

\* 0x00ffffffffffffff
DRM_FORMAT_MOD_INVALID == << 255, 65535, 65535, 65535 >>
\* fourcc_mod_code(AMD, 0) = 0x02 << 56
AMD_FMT_MOD == << 512, 0, 0, 0 >>

Fds == 1..MaxFd
PixIds == 1..MaxPixmaps
Families == MinFamily..MaxFamily

----------------------------------------------------------------------------
(* The call record *)

Ev(c, p, s, n) == [c |-> c, p |-> p, s |-> s, n |-> n]

Idle == [op |-> "idle", args |-> << >>, ret |-> 0, out |-> << >>, trace |-> << >>]

Reply(op, args, ret, out, trace) ==
    [op |-> op, args |-> args, ret |-> ret, out |-> out, trace |-> trace]

----------------------------------------------------------------------------
(* Device Access Gate *)

OpenOutcomes == {[fd |-> f, errno |-> "none"] : f \in Fds}
                  \cup {[fd |-> -1, errno |-> e] : e \in {"ENOENT", "EMFILE"}}

MagicOutcomes == {"ok", "EACCES", "EINVAL", "EBADF"}

\* what open_card_node does once the card node is open as fd
open_card_node_handshake_mut(fd, magic, auth) ==
    IF magic # "ok"
    THEN [ret |-> Success, out |-> fd, trace |-> << Ev("drmGetMagic", fd, magic, -1) >>]
    ELSE IF ~auth
         THEN [ret |-> BadMatch, out |-> -1,
               trace |-> << Ev("drmGetMagic", fd, "ok", 0), Ev("drmAuthMagic", fd, "refused", -1),
                            Ev("close", fd, "", 0) >>]
         ELSE [ret |-> Success, out |-> fd,
               trace |-> << Ev("drmGetMagic", fd, "ok", 0), Ev("drmAuthMagic", fd, "ok", 0) >>]

open_card_node_handshake(fd, magic, auth) ==
    IF magic # "ok"
    THEN IF magic = "EACCES"
         THEN [ret |-> Success, out |-> fd, trace |-> << Ev("drmGetMagic", fd, magic, -1) >>]
         ELSE [ret |-> BadMatch, out |-> -1,
               trace |-> << Ev("drmGetMagic", fd, magic, -1), Ev("close", fd, "", 0) >>]
    ELSE IF ~auth
         THEN [ret |-> BadMatch, out |-> -1,
               trace |-> << Ev("drmGetMagic", fd, "ok", 0), Ev("drmAuthMagic", fd, "refused", -1),
                            Ev("close", fd, "", 0) >>]
         ELSE [ret |-> Success, out |-> fd,
               trace |-> << Ev("drmGetMagic", fd, "ok", 0), Ev("drmAuthMagic", fd, "ok", 0) >>]

\* out = -1 stands for "*out was not written"
open_card_node(o, magic, auth) ==
    LET ev == << Ev("open", o.fd, "device_name", 0) >> IN
    IF o.fd < 0
    THEN [ret |-> BadAlloc, out |-> -1, trace |-> ev]
    ELSE LET h == open_card_node_handshake(o.fd, magic, auth) IN
         [ret |-> h.ret, out |-> h.out, trace |-> ev \o h.trace]

open_render_node(o) ==
    LET ev == << Ev("open", o.fd, "render_node", 0) >> IN
    IF o.fd < 0
    THEN [ret |-> BadAlloc, out |-> -1, trace |-> ev]
    ELSE [ret |-> Success, out |-> o.fd, trace |-> ev]

amdgpu_dri3_open(r, c, magic, auth) ==
    LET first == IF render_node THEN open_render_node(r)
                 ELSE [ret |-> BadAlloc, out |-> -1, trace |-> << >>]
    IN  IF first.ret # Success
        THEN LET second == open_card_node(c, magic, auth) IN
             [ret |-> second.ret, out |-> second.out, trace |-> first.trace \o second.trace]
        ELSE first

\* Outcomes the handler never consults are pinned, so each behaviour is drawn once.
Dri3Open ==
    /\ call.op = "idle"
    /\ ~crashed
    /\ \E r \in (IF render_node THEN OpenOutcomes ELSE {[fd |-> -1, errno |-> "none"]}) :
       \E c \in (IF render_node /\ r.fd >= 0 THEN {[fd |-> -1, errno |-> "none"]} ELSE OpenOutcomes) :
       \E magic \in (IF c.fd >= 0 THEN MagicOutcomes ELSE {"ok"}) :
       \E auth \in (IF c.fd >= 0 /\ magic = "ok" THEN BOOLEAN ELSE {TRUE}) :
          LET res == amdgpu_dri3_open(r, c, magic, auth) IN
          call' = Reply("open", [render |-> r, card |-> c, magic |-> magic, auth |-> auth],
                        res.ret, res.out, res.trace)
    /\ UNCHANGED << render_node, use_glamor, family, tables, held, crashed, pixmaps, rt >>

----------------------------------------------------------------------------
(* Format/Modifier Catalog *)

formats_arr_init ==
    << "DRM_FORMAT_ARGB8888", "DRM_FORMAT_XRGB8888", "DRM_FORMAT_BGRA8888",
       "DRM_FORMAT_BGRX8888", "DRM_FORMAT_RGB888", "DRM_FORMAT_BGR888",
       "DRM_FORMAT_RGB565", "DRM_FORMAT_BGR565", "DRM_FORMAT_NV12",
       "DRM_FORMAT_YUV420", "DRM_FORMAT_P010", "DRM_FORMAT_NV16",
       "DRM_FORMAT_YUV422", "DRM_FORMAT_YUV444", "DRM_FORMAT_XYUV8888",
       "DRM_FORMAT_ARGB2101010", "DRM_FORMAT_XRGB2101010", "DRM_FORMAT_BGRA1010102",
       "DRM_FORMAT_BGRX1010102", "DRM_FORMAT_RGBA5551", "DRM_FORMAT_RGBA4444",
       "DRM_FORMAT_RGB332", "DRM_FORMAT_BGR233" >>

\* The tile tags as the source writes them: the macros OR'd together unshifted.
Tag(ver, tile) == Or64(Or64(AMD_FMT_MOD, U64(ver)), U64(tile))

default_modifiers_init == << DRM_FORMAT_MOD_INVALID >>

amd_tiled_modifiers_init ==
    << DRM_FORMAT_MOD_INVALID,
       Tag(AMD_FMT_MOD_TILE_VER_GFX9, AMD_FMT_MOD_TILE_GFX9_64K_S),
       Tag(AMD_FMT_MOD_TILE_VER_GFX9, AMD_FMT_MOD_TILE_GFX9_64K_D) >>

amd_tiled_modifiers_gfx10_init ==
    << DRM_FORMAT_MOD_INVALID,
       Tag(AMD_FMT_MOD_TILE_VER_GFX10, AMD_FMT_MOD_TILE_GFX9_64K_S),
       Tag(AMD_FMT_MOD_TILE_VER_GFX10, AMD_FMT_MOD_TILE_GFX9_64K_D) >>

amd_tiled_modifiers_gfx12_init ==
    << DRM_FORMAT_MOD_INVALID,
       Tag(AMD_FMT_MOD_TILE_VER_GFX12, AMD_FMT_MOD_TILE_GFX12_64K_2D) >>

default_mods_init == << DRM_FORMAT_MOD_INVALID >>

gfx9_mods_init ==
    << DRM_FORMAT_MOD_INVALID,
       Tag(AMD_FMT_MOD_TILE_VER_GFX9, AMD_FMT_MOD_TILE_GFX9_64K_S),
       Tag(AMD_FMT_MOD_TILE_VER_GFX9, AMD_FMT_MOD_TILE_GFX9_64K_D) >>

gfx10_mods_init ==
    << DRM_FORMAT_MOD_INVALID,
       Tag(AMD_FMT_MOD_TILE_VER_GFX10, AMD_FMT_MOD_TILE_GFX9_64K_S),
       Tag(AMD_FMT_MOD_TILE_VER_GFX10, AMD_FMT_MOD_TILE_GFX9_64K_D) >>

gfx12_mods_init ==
    << DRM_FORMAT_MOD_INVALID,
       Tag(AMD_FMT_MOD_TILE_VER_GFX12, AMD_FMT_MOD_TILE_GFX12_64K_2D) >>

StaticTables ==
    [formats_arr |-> formats_arr_init,
     default_modifiers |-> default_modifiers_init,
     amd_tiled_modifiers |-> amd_tiled_modifiers_init,
     amd_tiled_modifiers_gfx10 |-> amd_tiled_modifiers_gfx10_init,
     amd_tiled_modifiers_gfx12 |-> amd_tiled_modifiers_gfx12_init,
     default_mods |-> default_mods_init,
     gfx9_mods |-> gfx9_mods_init,
     gfx10_mods |-> gfx10_mods_init,
     gfx12_mods |-> gfx12_mods_init]

\* A pointer to a list: into a static table, or to a block malloc returned.
\* elt is the element type the pointer is declared with.
NoList == [region |-> "none", table |-> "", elt |-> "", data |-> << >>]
StaticPtr(name, elt) == [region |-> "static", table |-> name, elt |-> elt, data |-> << >>]
HeapCopy(list, elt) == [region |-> "heap", table |-> "", elt |-> elt, data |-> list]

\* what the pointer reads as
Deref(ptr) == IF ptr.region = "static" THEN tables[ptr.table] ELSE ptr.data

\* lines 487-489: the list handed to the caller
get_formats_list == StaticPtr("formats_arr", "u32")

amdgpu_dri3_get_formats ==
    [ret |-> Len(tables.formats_arr),
     out |-> [num |-> Len(tables.formats_arr), list |-> get_formats_list],
     trace |-> << >>]

\* lines 541-556: the static array amdgpu_dri3_get_modifiers selects
get_modifiers_select_mut(asic_family) ==
    IF asic_family >= AMDGPU_FAMILY_AI THEN "amd_tiled_modifiers"
    ELSE IF asic_family >= AMDGPU_FAMILY_NV THEN "amd_tiled_modifiers_gfx10"
    ELSE IF asic_family >= AMDGPU_FAMILY_GC_12_0_0 THEN "amd_tiled_modifiers_gfx12"
    ELSE "default_modifiers"

get_modifiers_select(asic_family) ==
    IF asic_family >= AMDGPU_FAMILY_GC_12_0_0 THEN "amd_tiled_modifiers_gfx12"
    ELSE IF asic_family >= AMDGPU_FAMILY_NV THEN "amd_tiled_modifiers_gfx10"
    ELSE IF asic_family >= AMDGPU_FAMILY_AI THEN "amd_tiled_modifiers"
    ELSE "default_modifiers"

\* lines 585-622: the static array amdgpu_dri3_get_drawable_modifiers selects
get_drawable_modifiers_select(asic_family) ==
    IF asic_family >= AMDGPU_FAMILY_GC_12_0_0 THEN "gfx12_mods"
    ELSE IF asic_family >= AMDGPU_FAMILY_NV THEN "gfx10_mods"
    ELSE IF asic_family >= AMDGPU_FAMILY_AI THEN "gfx9_mods"
    ELSE "default_mods"

\* lines 558-566: malloc + memcpy of the selected array
copy_modifiers(name, malloc_ok, okret) ==
    IF ~malloc_ok
    THEN [ret |-> 0, out |-> [num |-> 0, list |-> NoList],
          trace |-> << Ev("malloc", 0, "", Len(tables[name])) >>]
    ELSE [ret |-> okret,
          out |-> [num |-> Len(tables[name]), list |-> HeapCopy(tables[name], "u64")],
          trace |-> << Ev("malloc", 1, "", Len(tables[name])),
                       Ev("memcpy", 1, name, Len(tables[name])) >>]

amdgpu_dri3_get_modifiers(format, malloc_ok) ==
    LET name == get_modifiers_select(family) IN
    copy_modifiers(name, malloc_ok, Len(tables[name]))

\* returns TRUE (1) / FALSE (0)
amdgpu_dri3_get_drawable_modifiers(format, malloc_ok) ==
    copy_modifiers(get_drawable_modifiers_select(family), malloc_ok, 1)

QueryFormats == {formats_arr_init[i] : i \in 1..Len(formats_arr_init)} \cup {"DRM_FORMAT_C8"}

CatalogIdle == call.op = "idle" /\ ~crashed /\ held = NoList

DeviceUnchanged == UNCHANGED << render_node, use_glamor, family, pixmaps, rt >>

GetFormats ==
    /\ CatalogIdle
    /\ LET res == amdgpu_dri3_get_formats IN
       call' = Reply("get_formats", << >>, res.ret, res.out, res.trace)
    /\ UNCHANGED << tables, held, crashed >>
    /\ DeviceUnchanged

GetModifiers ==
    /\ CatalogIdle
    /\ \E format \in QueryFormats, malloc_ok \in BOOLEAN :
          LET res == amdgpu_dri3_get_modifiers(format, malloc_ok) IN
          call' = Reply("get_modifiers", [format |-> format, malloc_ok |-> malloc_ok],
                        res.ret, res.out, res.trace)
    /\ UNCHANGED << tables, held, crashed >>
    /\ DeviceUnchanged

GetDrawableModifiers ==
    /\ CatalogIdle
    /\ \E format \in QueryFormats, malloc_ok \in BOOLEAN :
          LET res == amdgpu_dri3_get_drawable_modifiers(format, malloc_ok) IN
          call' = Reply("get_drawable_modifiers", [format |-> format, malloc_ok |-> malloc_ok],
                        res.ret, res.out, res.trace)
    /\ UNCHANGED << tables, held, crashed >>
    /\ DeviceUnchanged

CatalogOps == {"get_formats", "get_modifiers", "get_drawable_modifiers"}

\* The host takes the reply; a list a catalog call returned is now the caller's.
ReturnDevice ==
    /\ call.op \in CatalogOps \cup {"open"}
    /\ call' = Idle
    /\ held' = IF call.op \in CatalogOps /\ call.ret # 0 THEN call.out.list ELSE held
    /\ UNCHANGED << tables, crashed >>
    /\ DeviceUnchanged

\* The value a caller scribbles into element 1 of the list it was given.
Scribble(elt) == IF elt = "u32" THEN "DRM_FORMAT_INVALID" ELSE U64(0)

\* The caller writes through the pointer it holds.  A block of its own changes
\* alone.  formats_arr is const: the store faults, or lands in the table.
CallerWrite ==
    /\ call.op = "idle" /\ ~crashed /\ held # NoList
    /\ \/ /\ held.region = "heap"
          /\ held' = [held EXCEPT !.data[1] = Scribble(held.elt)]
          /\ UNCHANGED << tables, crashed >>
       \/ /\ held.region = "static"
          /\ \/ crashed' = TRUE /\ UNCHANGED tables
             \/ /\ tables' = [tables EXCEPT ![held.table][1] = Scribble(held.elt)]
                /\ UNCHANGED crashed
          /\ UNCHANGED held
    /\ UNCHANGED call
    /\ DeviceUnchanged

\* The caller frees the list.  free() of a pointer malloc never returned aborts.
CallerFree ==
    /\ call.op = "idle" /\ ~crashed /\ held # NoList
    /\ \/ held.region = "heap" /\ held' = NoList /\ UNCHANGED crashed
       \/ held.region = "static" /\ crashed' = TRUE /\ UNCHANGED held
    /\ UNCHANGED << tables, call >>
    /\ DeviceUnchanged

\* The caller drops the pointer without freeing it.
CallerDrop ==
    /\ call.op = "idle" /\ ~crashed /\ held # NoList
    /\ held' = NoList
    /\ UNCHANGED << tables, crashed, call >>
    /\ DeviceUnchanged

\* bo: the backing store amdgpu_get_pixmap_bo finds ("none", "kernel", "gbm"), or
\* "glamor" for a texture glamor owns; dri2: usage_hint has AMDGPU_CREATE_PIXMAP_DRI2
NoPixmap == [live |-> FALSE, devKind |-> 0, bo |-> "none", priv |-> FALSE, dri2 |-> FALSE]
NoRt == [stage |-> "none", fd |-> 0, stride |-> 0, modifier |-> U64(0)]

\* amdgpu_dri3_screen_init: the render node name may or may not exist
InitDevice ==
    /\ render_node \in BOOLEAN
    /\ family \in Families
    /\ use_glamor = FALSE
    /\ tables = StaticTables
    /\ held = NoList
    /\ crashed = FALSE
    /\ pixmaps = [p \in PixIds |-> NoPixmap]
    /\ rt = NoRt
    /\ call = Idle

NextDevice ==
    \/ Dri3Open
    \/ GetFormats
    \/ GetModifiers
    \/ GetDrawableModifiers
    \/ ReturnDevice
    \/ CallerWrite
    \/ CallerFree
    \/ CallerDrop

SpecDevice == InitDevice /\ [][NextDevice]_vars

----------------------------------------------------------------------------
(* The host's surface primitives, as the handlers use them *)

FreeSlots(pm) == {p \in PixIds : ~pm[p].live}
FreeSlot(pm) == CHOOSE p \in FreeSlots(pm) : \A q \in FreeSlots(pm) : p <= q

\* screen->CreatePixmap(screen, 0, 0, depth, usage): NULL when the host has no room
CreateOutcomes(pm) == IF FreeSlots(pm) = {} THEN {FALSE} ELSE BOOLEAN

Created(pm, p, dri2) ==
    [pm EXCEPT ![p] = [live |-> TRUE, devKind |-> 0, bo |-> "none",
                       priv |-> FALSE, dri2 |-> dri2]]

\* DestroyPixmap / dixDestroyPixmap / fbDestroyPixmap on a pixmap of refcnt 1
Destroyed(pm, p) == [pm EXCEPT ![p] = NoPixmap]

\* ModifyPixmapHeader(pixmap, w, h, 0, bpp, devKind, NULL): devKind <= 0 keeps the old one
Modified(pm, p, devKind) ==
    [pm EXCEPT ![p].devKind = IF devKind > 0 THEN devKind ELSE @]

\* SetSharedPixmapBacking(pixmap, fd): the fd's buffer becomes the kernel-direct backing
Backed_mut(pm, p) == pm

Backed(pm, p) == [pm EXCEPT ![p].bo = "kernel"]

\* glamor_egl_create_textured_pixmap_from_gbm_bo
Textured(pm, p) == [pm EXCEPT ![p].bo = "glamor"]

\* amdgpu_set_pixmap_private + usage_hint |= AMDGPU_CREATE_PIXMAP_DRI2
Tagged(pm, p) == [pm EXCEPT ![p].priv = TRUE, ![p].dri2 = TRUE]

\* The handler returns: the reply is recorded and the pixmap table is as left.
Finish(op, a, ret, tr, pm) ==
    /\ call' = Reply(op, a, ret, IF ret # NULL THEN pm[ret] ELSE NoPixmap, tr)
    /\ pixmaps' = pm

----------------------------------------------------------------------------
(* Buffer Import Engine *)

\* lines 148-155 and 304-311: switch (bpp)
bpp_supported_mut(bpp) == bpp \in {8, 16, 24, 32}

bpp_supported(bpp) == bpp \in {8, 16, 32}

\* "none" stands for the FALSE return
gbm_format_from_depth_mut(depth) ==
    CASE depth = 15 -> "GBM_FORMAT_ARGB1555"
      [] depth = 16 -> "GBM_FORMAT_RGB565"
      [] depth = 24 -> "GBM_FORMAT_ARGB8888"
      [] depth = 30 -> "GBM_FORMAT_ARGB2101010"
      [] depth = 32 -> "GBM_FORMAT_ARGB8888"
      [] OTHER -> "none"

gbm_format_from_depth(depth) ==
    CASE depth = 15 -> "GBM_FORMAT_ARGB1555"
      [] depth = 16 -> "GBM_FORMAT_RGB565"
      [] depth = 24 -> "GBM_FORMAT_XRGB8888"
      [] depth = 30 -> "GBM_FORMAT_ARGB2101010"
      [] depth = 32 -> "GBM_FORMAT_ARGB8888"
      [] OTHER -> "none"

\* free_pixmap: (lines 169-171 and 325-327)
free_pixmap_mut(op, a, tr, pm, p) == Finish(op, a, NULL, tr, pm)

free_pixmap(op, a, tr, pm, p) ==
    Finish(op, a, NULL, tr \o << Ev("fbDestroyPixmap", p, "", 0) >>, Destroyed(pm, p))

\* lines 157-167 and 313-323: create, stamp, attach
direct_create(op, a, tr, pm, stride, fd) ==
    \E created \in CreateOutcomes(pm) :
       IF ~created
       THEN Finish(op, a, NULL,
                   tr \o << Ev("CreatePixmap", NULL, "AMDGPU_CREATE_PIXMAP_DRI2", a.depth) >>, pm)
       ELSE LET p == FreeSlot(pm)
                tr1 == tr \o << Ev("CreatePixmap", p, "AMDGPU_CREATE_PIXMAP_DRI2", a.depth) >>
                pm1 == Created(pm, p, TRUE)
            IN  \E header \in BOOLEAN :
                   IF ~header
                   THEN free_pixmap(op, a, tr1 \o << Ev("ModifyPixmapHeader", p, "FALSE", stride) >>,
                                    pm1, p)
                   ELSE LET tr2 == tr1 \o << Ev("ModifyPixmapHeader", p, "TRUE", stride) >>
                            pm2 == Modified(pm1, p, stride)
                        IN  \E shared \in BOOLEAN :
                               IF shared
                               THEN Finish(op, a, p,
                                           tr2 \o << Ev("SetSharedPixmapBacking", p, "TRUE", fd) >>,
                                           Backed(pm2, p))
                               ELSE free_pixmap(op, a,
                                           tr2 \o << Ev("SetSharedPixmapBacking", p, "FALSE", fd) >>,
                                           pm2, p)

\* lines 145-171: the part of amdgpu_dri3_pixmap_from_fd after the glamor attempt
pixmap_from_fd_direct(a, tr, pm) ==
    IF a.depth < 8 THEN Finish("pixmap_from_fd", a, NULL, tr, pm)
    ELSE IF ~bpp_supported(a.bpp) THEN Finish("pixmap_from_fd", a, NULL, tr, pm)
    ELSE direct_create("pixmap_from_fd", a, tr, pm, a.stride, a.fd)

\* line 318: the stride ModifyPixmapHeader is given
header_stride(a) == a.strides[1]

\* non_glamor_path: (lines 294-327)
non_glamor_path(a, tr, pm) ==
    IF a.num_fds # 1 THEN Finish("pixmap_from_fds", a, NULL, tr, pm)
    ELSE IF a.depth < 8 THEN Finish("pixmap_from_fds", a, NULL, tr, pm)
    ELSE IF ~bpp_supported(a.bpp) THEN Finish("pixmap_from_fds", a, NULL, tr, pm)
    ELSE direct_create("pixmap_from_fds", a, tr, pm, header_stride(a), a.fds[1])

\* lines 131-142 and 275-286: the private record
attach_private(op, a, tr, pm, p) ==
    \E priv \in BOOLEAN :
       IF priv
       THEN Finish(op, a, p,
                   tr \o << Ev("calloc", p, "priv", 1), Ev("amdgpu_set_pixmap_private", p, "", 0) >>,
                   Tagged(pm, p))
       ELSE Finish(op, a, NULL,
                   tr \o << Ev("calloc", p, "NULL", 0), Ev("DestroyPixmap", p, "", 0) >>,
                   Destroyed(pm, p))

\* lines 128-143: glamor_pixmap_from_fd makes the pixmap itself, or returns NULL
amdgpu_dri3_pixmap_from_fd(a) ==
    IF use_glamor
    THEN \E made \in CreateOutcomes(pixmaps) :
            IF made
            THEN LET p == FreeSlot(pixmaps)
                     pm1 == Textured(Modified(Created(pixmaps, p, FALSE), p, a.stride), p)
                 IN  attach_private("pixmap_from_fd", a,
                                    << Ev("glamor_pixmap_from_fd", p, "", a.fd) >>, pm1, p)
            ELSE pixmap_from_fd_direct(a, << Ev("glamor_pixmap_from_fd", NULL, "", a.fd) >>,
                                       pixmaps)
    ELSE pixmap_from_fd_direct(a, << >>, pixmaps)

\* error: (lines 289-292)
error_label(a, tr, pm, p) ==
    Finish("pixmap_from_fds", a, NULL,
           tr \o << Ev("dixDestroyPixmap", p, "", 0) >>, Destroyed(pm, p))

\* line 237: which gbm_bo_import the glamor path asks for
import_type(num_fds, modifier) ==
    IF modifier # DRM_FORMAT_MOD_INVALID /\ num_fds > 1
    THEN "GBM_BO_IMPORT_FD_MODIFIER"
    ELSE "GBM_BO_IMPORT_FD"

\* lines 271-287: after gbm_bo_import returned bo
after_import(a, tr, pm, p, bo) ==
    IF ~bo THEN error_label(a, tr, pm, p)
    ELSE \E header \in BOOLEAN, textured \in BOOLEAN :
            LET pm1 == IF header THEN Modified(pm, p, a.strides[1]) ELSE pm
                tr1 == tr \o << Ev("ModifyPixmapHeader", p, IF header THEN "TRUE" ELSE "FALSE",
                                   a.strides[1]),
                                Ev("glamor_egl_create_textured_pixmap_from_gbm_bo", p,
                                   IF textured THEN "TRUE" ELSE "FALSE", 0),
                                Ev("gbm_bo_destroy", p, "", 0) >>
            IN  IF textured
                THEN attach_private("pixmap_from_fds", a, tr1, Textured(pm1, p), p)
                ELSE error_label(a, tr1, pm1, p)

\* lines 227-269
glamor_path(a, tr, pm) ==
    \E created \in CreateOutcomes(pm) :
       IF ~created
       THEN Finish("pixmap_from_fds", a, NULL, tr \o << Ev("CreatePixmap", NULL, "0", a.depth) >>, pm)
       ELSE LET p == FreeSlot(pm)
                pm1 == Created(pm, p, FALSE)
                fmt == gbm_format_from_depth(a.depth)
                tr1 == tr \o << Ev("CreatePixmap", p, "0", a.depth),
                                Ev("gbm_format_from_depth", p, fmt, a.depth) >>
                type == import_type(a.num_fds, a.modifier)
            IN  IF fmt = "none" THEN error_label(a, tr1, pm1, p)
                ELSE IF type = "GBM_BO_IMPORT_FD" /\ a.num_fds # 1 THEN error_label(a, tr1, pm1, p)
                ELSE \E bo \in BOOLEAN :
                        after_import(a, tr1 \o << Ev("gbm_bo_import", p, type,
                                                     IF bo THEN 1 ELSE 0) >>, pm1, p, bo)

\* lines 219-225
amdgpu_dri3_pixmap_from_fds(a) ==
    IF ~use_glamor THEN non_glamor_path(a, << >>, pixmaps)
    ELSE \E gbm \in BOOLEAN :
            IF ~gbm
            THEN non_glamor_path(a, << Ev("glamor_egl_get_gbm_device", NULL, "NULL", 0) >>, pixmaps)
            ELSE glamor_path(a, << Ev("glamor_egl_get_gbm_device", NULL, "gbm", 1) >>, pixmaps)

----------------------------------------------------------------------------
(* Buffer Export Engine *)

UINT32_MAX == << 65535, 65535 >>

\* (unsigned) conversion of an int >= 0, as two 16-bit limbs
ToU32(x) == << x \div 65536, x % 65536 >>
GtU32(x, y) == x[1] > y[1] \/ (x[1] = y[1] /\ x[2] > y[2])

\* glamor_fd_from_pixmap(screen, pixmap, CARD16 *stride, CARD32 *size): the library
\* fails, or makes an fd and stores the stride through the 16-bit pointer.  A stride
\* that does not fit is refused by some releases and stored truncated by others.
GlamorFdOutcomes(devKind) ==
    {[fd |-> -1, stride |-> 0, why |-> "failed"]}
      \cup {[fd |-> f, stride |-> devKind, why |-> "ok"] : f \in {g \in Fds : devKind <= UINT16_MAX}}
      \cup {[fd |-> -1, stride |-> 0, why |-> "stride"] : f \in {g \in {1} : devKind > UINT16_MAX}}
      \cup {[fd |-> f, stride |-> devKind % (UINT16_MAX + 1), why |-> "truncated"] :
              f \in {g \in Fds : devKind > UINT16_MAX}}

\* amdgpu_bo_export(..., amdgpu_bo_handle_type_dma_buf_fd, &fd): -1 for a failure
ExportOutcomes == Fds \cup {-1}

\* lines 348-349
flush_if_ok_mut(ret) == << >>

flush_if_ok(ret) == IF ret >= 0 THEN << Ev("amdgpu_glamor_flush", 0, "", 0) >> ELSE << >>

\* line 358
stride_exceeds_u16(devKind) == devKind > UINT16_MAX

\* line 416: int against UINT32_MAX, compared as unsigned
stride_exceeds_u32(devKind) == GtU32(ToU32(devKind), UINT32_MAX)

ExportDone(op, p, ret, out, tr) ==
    /\ call' = Reply(op, [pixmap |-> p, devKind |-> pixmaps[p].devKind, bo |-> pixmaps[p].bo],
                     ret, out, tr)
    /\ UNCHANGED pixmaps

NoFdOut == [stride |-> 0, size |-> ""]

\* lines 354-370
fd_from_pixmap_direct(p) ==
    LET pix == pixmaps[p]
        tr0 == << Ev("amdgpu_get_pixmap_bo", p, pix.bo, 0) >>
    IN  IF pix.bo \notin {"kernel", "gbm"}
        THEN ExportDone("fd_from_pixmap", p, -1, NoFdOut, tr0)
        ELSE IF stride_exceeds_u16(pix.devKind)
        THEN ExportDone("fd_from_pixmap", p, -1, NoFdOut, tr0)
        ELSE \E query \in BOOLEAN :
                IF ~query
                THEN ExportDone("fd_from_pixmap", p, -1, NoFdOut,
                                tr0 \o << Ev("amdgpu_bo_query_info", p, "", -1) >>)
                ELSE \E fd \in ExportOutcomes :
                        LET tr1 == tr0 \o << Ev("amdgpu_bo_query_info", p, "", 0),
                                             Ev("amdgpu_bo_export", p, "", fd) >>
                        IN  IF fd < 0
                            THEN ExportDone("fd_from_pixmap", p, -1, NoFdOut, tr1)
                            ELSE ExportDone("fd_from_pixmap", p, fd,
                                            [stride |-> pix.devKind % (UINT16_MAX + 1),
                                             size |-> "alloc_size"], tr1)

\* lines 341-352
amdgpu_dri3_fd_from_pixmap(p) ==
    IF use_glamor
    THEN \E g \in GlamorFdOutcomes(pixmaps[p].devKind) :
            ExportDone("fd_from_pixmap", p, g.fd,
                       IF g.fd >= 0 THEN [stride |-> g.stride, size |-> "size"] ELSE NoFdOut,
                       << Ev("glamor_fd_from_pixmap", p, g.why, g.fd) >> \o flush_if_ok(g.fd))
    ELSE fd_from_pixmap_direct(p)

NoFdsOut == [fds |-> << >>, strides |-> << >>, offsets |-> << >>, modifier |-> U64(0)]

TileTag == Tag(AMD_FMT_MOD_TILE_VER_GFX9, AMD_FMT_MOD_TILE_GFX9_64K_S)

\* gbm_bo_get_modifier(bo->bo.gbm)
GbmModifiers == {DRM_FORMAT_MOD_INVALID, TileTag}

\* line 427: strides[0] = pixmap->devKind
reported_stride(devKind) == devKind

\* lines 412-445
fds_from_pixmap_direct(p) ==
    LET pix == pixmaps[p]
        tr0 == << Ev("amdgpu_get_pixmap_bo", p, pix.bo, 0) >>
    IN  IF pix.bo \notin {"kernel", "gbm"}
        THEN ExportDone("fds_from_pixmap", p, -1, NoFdsOut, tr0)
        ELSE IF stride_exceeds_u32(pix.devKind)
        THEN ExportDone("fds_from_pixmap", p, -1, NoFdsOut, tr0)
        ELSE \E query \in BOOLEAN :
                IF ~query
                THEN ExportDone("fds_from_pixmap", p, -1, NoFdsOut,
                                tr0 \o << Ev("amdgpu_bo_query_info", p, "", -1) >>)
                ELSE \E fd \in ExportOutcomes :
                        LET tr1 == tr0 \o << Ev("amdgpu_bo_query_info", p, "", 0),
                                             Ev("amdgpu_bo_export", p, "", fd) >>
                        IN  IF fd < 0
                            THEN ExportDone("fds_from_pixmap", p, -1, NoFdsOut, tr1)
                            ELSE \E gbm_modifier \in (IF pix.bo = "gbm" THEN GbmModifiers
                                                      ELSE {DRM_FORMAT_MOD_INVALID}) :
                                    ExportDone("fds_from_pixmap", p, 1,
                                       [fds |-> << fd >>,
                                        strides |-> << reported_stride(pix.devKind) >>,
                                        offsets |-> << 0 >>,
                                        modifier |-> IF pix.bo = "gbm"
                                                        /\ gbm_modifier # DRM_FORMAT_MOD_INVALID
                                                     THEN gbm_modifier
                                                     ELSE DRM_FORMAT_MOD_INVALID],
                                       IF pix.bo = "gbm"
                                       THEN tr1 \o << Ev("gbm_bo_get_modifier", p, "", 0) >>
                                       ELSE tr1)

\* lines 386-410
amdgpu_dri3_fds_from_pixmap(p) ==
    IF use_glamor
    THEN \E g \in GlamorFdOutcomes(pixmaps[p].devKind) :
            LET tr0 == << Ev("glamor_fd_from_pixmap", p, g.why, g.fd) >> IN
            IF g.fd < 0
            THEN ExportDone("fds_from_pixmap", p, -1, NoFdsOut, tr0)
            ELSE ExportDone("fds_from_pixmap", p, 1,
                            [fds |-> << g.fd >>, strides |-> << g.stride >>,
                             offsets |-> << 0 >>, modifier |-> DRM_FORMAT_MOD_INVALID],
                            tr0 \o << Ev("amdgpu_glamor_flush", 0, "", 0) >>)
    ELSE fds_from_pixmap_direct(p)

----------------------------------------------------------------------------
(* The host around the buffer entry points *)

Strides == {UINT16_MAX, UINT16_MAX + 1}

\* (depth, bpp) of the requests: each branch of the depth and bpp checks is taken
DepthBpp == { << 4, 8 >>, << 8, 8 >>, << 15, 16 >>, << 16, 16 >>, << 24, 24 >>,
              << 24, 32 >>, << 30, 32 >>, << 32, 32 >> }

FdArgs ==
    {[fd |-> 1, stride |-> UINT16_MAX, depth |-> d[1], bpp |-> d[2]] : d \in DepthBpp}

FdsArgs ==
    {[num_fds |-> n, fds |-> [i \in 1..n |-> i], strides |-> [i \in 1..n |-> s],
      offsets |-> [i \in 1..n |-> 0], depth |-> d[1], bpp |-> d[2], modifier |-> m] :
        n \in 0..MaxPlanes, s \in Strides, d \in DepthBpp,
        m \in {DRM_FORMAT_MOD_INVALID, TileTag}}

BufferUnchanged == UNCHANGED << render_node, use_glamor, family, tables, held, crashed >>

HostCreatePixmap ==
    /\ call.op = "idle"
    /\ FreeSlots(pixmaps) # {}
    /\ \E devKind \in Strides, bo \in {"none", "kernel", "gbm"} :
          pixmaps' = [pixmaps EXCEPT ![FreeSlot(pixmaps)] =
                         [live |-> TRUE, devKind |-> devKind, bo |-> bo,
                          priv |-> FALSE, dri2 |-> FALSE]]
    /\ UNCHANGED << call, rt >>
    /\ BufferUnchanged

HostDestroyPixmap ==
    /\ call.op = "idle"
    /\ \E p \in PixIds :
          /\ pixmaps[p].live
          /\ pixmaps' = Destroyed(pixmaps, p)
    /\ UNCHANGED << call, rt >>
    /\ BufferUnchanged

PixmapFromFd ==
    /\ call.op = "idle"
    /\ \E a \in FdArgs : amdgpu_dri3_pixmap_from_fd(a)
    /\ rt' = NoRt
    /\ BufferUnchanged

PixmapFromFds ==
    /\ call.op = "idle"
    /\ \E a \in FdsArgs : amdgpu_dri3_pixmap_from_fds(a)
    /\ rt' = NoRt
    /\ BufferUnchanged

FdFromPixmap ==
    /\ call.op = "idle"
    /\ \E p \in PixIds : pixmaps[p].live /\ amdgpu_dri3_fd_from_pixmap(p)
    /\ rt' = NoRt
    /\ BufferUnchanged

FdsFromPixmap ==
    /\ call.op = "idle"
    /\ \E p \in PixIds : pixmaps[p].live /\ amdgpu_dri3_fds_from_pixmap(p)
    /\ rt' = NoRt
    /\ BufferUnchanged

\* The host hands the descriptor an export produced straight back to import.
ReimportExported ==
    /\ call.op = "fds_from_pixmap" /\ call.ret = 1 /\ rt.stage = "none"
    /\ \E d \in DepthBpp :
          amdgpu_dri3_pixmap_from_fds(
             [num_fds |-> 1, fds |-> call.out.fds, strides |-> call.out.strides,
              offsets |-> call.out.offsets, depth |-> d[1], bpp |-> d[2],
              modifier |-> call.out.modifier])
    /\ rt' = [stage |-> "imported", fd |-> call.out.fds[1], stride |-> call.out.strides[1],
              modifier |-> call.out.modifier]
    /\ BufferUnchanged

\* ... and exports the surface that import produced.
ReexportImported ==
    /\ call.op = "pixmap_from_fds" /\ call.ret # NULL /\ rt.stage = "imported"
    /\ amdgpu_dri3_fds_from_pixmap(call.ret)
    /\ rt' = [rt EXCEPT !.stage = "reexported"]
    /\ BufferUnchanged

BufferOps == {"pixmap_from_fd", "pixmap_from_fds", "fd_from_pixmap", "fds_from_pixmap"}

ReturnBuffer ==
    /\ call.op \in BufferOps
    /\ call' = Idle
    /\ rt' = NoRt
    /\ UNCHANGED pixmaps
    /\ BufferUnchanged

InitBuffers ==
    /\ render_node = FALSE
    /\ family = AMDGPU_FAMILY_AI
    /\ use_glamor \in BOOLEAN
    /\ tables = StaticTables
    /\ held = NoList
    /\ crashed = FALSE
    /\ pixmaps = [p \in PixIds |-> NoPixmap]
    /\ rt = NoRt
    /\ call = Idle

NextBuffers ==
    \/ HostCreatePixmap
    \/ HostDestroyPixmap
    \/ PixmapFromFd
    \/ PixmapFromFds
    \/ FdFromPixmap
    \/ FdsFromPixmap
    \/ ReimportExported
    \/ ReexportImported
    \/ ReturnBuffer

SpecBuffers == InitBuffers /\ [][NextBuffers]_vars

----------------------------------------------------------------------------
(* Properties *)

Tr == call.trace
Has(c) == \E i \in DOMAIN Tr : Tr[i].c = c
HasS(c, str) == \E i \in DOMAIN Tr : Tr[i].c = c /\ Tr[i].s = str
ImportOps == {"pixmap_from_fd", "pixmap_from_fds"}
ExportOps == {"fd_from_pixmap", "fds_from_pixmap"}
DestroyCalls == {"DestroyPixmap", "dixDestroyPixmap", "fbDestroyPixmap"}
CreateCalls == {"CreatePixmap", "glamor_pixmap_from_fd"}

\* the non-accelerated steps were executed
DirectPathRan ==
    \/ HasS("CreatePixmap", "AMDGPU_CREATE_PIXMAP_DRI2")
    \/ Has("SetSharedPixmapBacking")

\* pixmap_from_fds got its GBM device, i.e. entered the glamor path
OnGlamorPath == HasS("glamor_egl_get_gbm_device", "gbm")

(* C1: amdgpu_dri3_open returns Success with the render fd and makes no magic
   handshake when a render node is known and opens; otherwise it opens the card
   node and returns BadAlloc if that fails, Success with the card fd if
   drmGetMagic fails with EACCES, BadMatch if drmGetMagic fails otherwise or
   drmAuthMagic is refused, and Success with the card fd if both succeed. *)
C1_OpenTriState ==
    call.op = "open" =>
       LET a == call.args IN
       IF render_node /\ a.render.fd >= 0
       THEN /\ call.ret = Success
            /\ call.out = a.render.fd
            /\ ~Has("drmGetMagic") /\ ~Has("drmAuthMagic")
            /\ ~HasS("open", "device_name")
       ELSE /\ HasS("open", "device_name")
            /\ IF a.card.fd < 0 THEN call.ret = BadAlloc
               ELSE IF a.magic = "EACCES" THEN call.ret = Success /\ call.out = a.card.fd
               ELSE IF a.magic # "ok" THEN call.ret = BadMatch
               ELSE IF ~a.auth THEN call.ret = BadMatch
               ELSE call.ret = Success /\ call.out = a.card.fd

C1_Witness ==
    /\ call.op = "open"
    /\ ~render_node
    /\ call.args.card.fd >= 0
    /\ call.args.magic = "EACCES"
    /\ call.ret = Success
    /\ call.out = call.args.card.fd

\* the accelerated import of the call in `call` went through to the end
AccelImportCompleted ==
    \/ /\ call.op = "pixmap_from_fd"
       /\ \E i \in DOMAIN Tr : Tr[i].c = "glamor_pixmap_from_fd" /\ Tr[i].p # NULL
       /\ HasS("calloc", "priv")
    \/ /\ call.op = "pixmap_from_fds"
       /\ HasS("glamor_egl_create_textured_pixmap_from_gbm_bo", "TRUE")
       /\ HasS("calloc", "priv")

\* the accelerated import was attempted and failed, at whichever step: the
\* surface creation, the depth translation, the plane count, the GBM import,
\* the texture creation or the private record
AccelImportFailed ==
    /\ \/ call.op = "pixmap_from_fd" /\ Has("glamor_pixmap_from_fd")
       \/ call.op = "pixmap_from_fds" /\ OnGlamorPath
    /\ ~AccelImportCompleted

(* C2: in both import entry points, with use_glamor, a failed accelerated import
   returns null and the non-accelerated path (CreatePixmap with the DRI2 hint,
   ModifyPixmapHeader, SetSharedPixmapBacking) is not run for that request. *)
C2_Original ==
    (call.op \in ImportOps /\ use_glamor /\ AccelImportFailed)
       => (call.ret = NULL /\ ~DirectPathRan)

\* the pixmaps the call created, and how often it destroyed pixmap p
CreatedInCall == {Tr[i].p : i \in {j \in DOMAIN Tr : Tr[j].c \in CreateCalls /\ Tr[j].p # NULL}}
DestroyCount(p) == Cardinality({i \in DOMAIN Tr : Tr[i].c \in DestroyCalls /\ Tr[i].p = p})

(* C3: when an import entry point returns null, every surface the call created
   has been destroyed exactly once before the return and none remains live. *)
C3_NoLeakOnFailure ==
    (call.op \in ImportOps /\ call.ret = NULL) =>
       \A p \in CreatedInCall :
          /\ DestroyCount(p) = 1
          /\ \A i, j \in DOMAIN Tr :
                (Tr[i].c \in CreateCalls /\ Tr[i].p = p /\ Tr[j].c \in DestroyCalls /\ Tr[j].p = p)
                   => i < j
          /\ ~pixmaps[p].live

C3_Witness ==
    /\ call.op = "pixmap_from_fds"
    /\ call.ret = NULL
    /\ HasS("SetSharedPixmapBacking", "FALSE")
    /\ CreatedInCall # {}
    /\ \A p \in CreatedInCall : DestroyCount(p) = 1 /\ ~pixmaps[p].live

GbmDepths == {15, 16, 24, 30, 32}

ExpectedGbmFormat(depth) ==
    CASE depth = 15 -> "GBM_FORMAT_ARGB1555"
      [] depth = 16 -> "GBM_FORMAT_RGB565"
      [] depth = 24 -> "GBM_FORMAT_XRGB8888"
      [] depth = 30 -> "GBM_FORMAT_ARGB2101010"
      [] depth = 32 -> "GBM_FORMAT_ARGB8888"

\* the strategy sentence of C4 for the call in `call`
StrategyAsClaimed ==
    LET a == call.args
        multi == HasS("gbm_bo_import", "GBM_BO_IMPORT_FD_MODIFIER")
        single == HasS("gbm_bo_import", "GBM_BO_IMPORT_FD")
    IN  IF a.depth \in GbmDepths
        THEN /\ multi <=> (a.modifier # DRM_FORMAT_MOD_INVALID /\ a.num_fds > 1)
             /\ single <=> (a.num_fds = 1)
             /\ (a.num_fds = 0 \/ (a.num_fds > 1 /\ a.modifier = DRM_FORMAT_MOD_INVALID))
                   => (~Has("gbm_bo_import") /\ call.ret = NULL)
             /\ Has("gbm_bo_import")
                   => HasS("gbm_format_from_depth", ExpectedGbmFormat(a.depth))
        ELSE ~Has("gbm_bo_import") /\ call.ret = NULL

(* C4, as claimed: on the accelerated path of amdgpu_dri3_pixmap_from_fds the
   import strategy depends on (num_fds, modifier, depth) only. *)
C4_Original ==
    (call.op = "pixmap_from_fds" /\ OnGlamorPath) => StrategyAsClaimed

(* C4, amended: on the accelerated path of amdgpu_dri3_pixmap_from_fds, once the
   initial CreatePixmap has succeeded, a multi-plane modifier import is requested
   exactly when modifier is not DRM_FORMAT_MOD_INVALID and num_fds > 1, a
   single-plane import exactly when num_fds = 1, and in every other case, and for
   every depth outside {15,16,24,30,32}, no import is made and null is returned;
   the depth is translated 15->ARGB1555, 16->RGB565, 24->XRGB8888,
   30->ARGB2101010, 32->ARGB8888.  When that CreatePixmap fails, no import is
   made and null is returned whatever the arguments. *)
C4_Amended ==
    (call.op = "pixmap_from_fds" /\ OnGlamorPath) =>
       IF \E i \in DOMAIN Tr : Tr[i].c = "CreatePixmap" /\ Tr[i].p # NULL
       THEN StrategyAsClaimed
       ELSE ~Has("gbm_bo_import") /\ call.ret = NULL

C4_Witness ==
    /\ call.op = "pixmap_from_fds"
    /\ OnGlamorPath
    /\ call.args.num_fds = 1
    /\ call.args.modifier = DRM_FORMAT_MOD_INVALID
    /\ call.args.depth = 24
    /\ HasS("gbm_bo_import", "GBM_BO_IMPORT_FD")
    /\ ~HasS("gbm_bo_import", "GBM_BO_IMPORT_FD_MODIFIER")
    /\ HasS("gbm_format_from_depth", "GBM_FORMAT_XRGB8888")
    /\ call.ret # NULL

(* C5: amdgpu_dri3_pixmap_from_fds returns null for a plane count of 0 on both
   paths; on the non-accelerated path it returns null, having created no
   surface, when the plane count exceeds 1, depth < 8 or bpp is not 8, 16, 32. *)
C5_Rejections ==
    call.op = "pixmap_from_fds" =>
       LET a == call.args IN
       /\ a.num_fds = 0 => call.ret = NULL
       /\ (~OnGlamorPath /\ (a.num_fds > 1 \/ a.depth < 8 \/ a.bpp \notin {8, 16, 32}))
             => (call.ret = NULL /\ ~Has("CreatePixmap") /\ CreatedInCall = {})

C5_Witness ==
    /\ call.op = "pixmap_from_fds"
    /\ ~use_glamor
    /\ call.args.num_fds = 1 /\ call.args.depth = 24 /\ call.args.bpp = 24
    /\ call.ret = NULL
    /\ ~Has("CreatePixmap")

\* the export failed for a reason that is not the stride
FailedOtherwise ==
    \/ HasS("amdgpu_get_pixmap_bo", "none") \/ HasS("amdgpu_get_pixmap_bo", "glamor")
    \/ \E i \in DOMAIN Tr :
          Tr[i].c \in {"amdgpu_bo_query_info", "amdgpu_bo_export"} /\ Tr[i].n < 0
    \/ HasS("glamor_fd_from_pixmap", "failed")

(* C6: the single-fd export fails, and reports no truncated stride, whenever the
   stride exceeds 65535; the multi-fd export fails on stride only above the
   32-bit limit, so for a stride in 65536..2^32-1 it succeeds and reports that
   stride, on the accelerated path as on the direct path. *)
C6_Claim ==
    /\ (call.op = "fd_from_pixmap" /\ call.args.devKind > UINT16_MAX) => call.ret < 0
    /\ (call.op = "fd_from_pixmap" /\ call.ret >= 0) => call.out.stride = call.args.devKind
    /\ (call.op = "fds_from_pixmap" /\ call.args.devKind > UINT16_MAX /\ ~FailedOtherwise)
          => (call.ret = 1 /\ call.out.strides[1] = call.args.devKind)

(* C7: on the accelerated path of both export entry points, a non-negative
   result is returned only after amdgpu_glamor_flush was issued, after the fd was
   created; and when the fd creation fails the export returns a negative value. *)
C7_FlushBeforeReturn ==
    (call.op \in ExportOps /\ use_glamor) =>
       /\ call.ret >= 0 =>
             \E i, j \in DOMAIN Tr :
                /\ i < j
                /\ Tr[i].c = "glamor_fd_from_pixmap" /\ Tr[i].n >= 0
                /\ Tr[j].c = "amdgpu_glamor_flush"
       /\ (\E i \in DOMAIN Tr : Tr[i].c = "glamor_fd_from_pixmap" /\ Tr[i].n < 0)
             => call.ret < 0

C7_Witness ==
    /\ call.op = "fd_from_pixmap"
    /\ use_glamor
    /\ call.ret >= 0
    /\ Len(Tr) = 2
    /\ Tr[1].c = "glamor_fd_from_pixmap" /\ Tr[2].c = "amdgpu_glamor_flush"

(* C8: every list a catalog entry point returns is a freshly allocated copy the
   caller owns, never a pointer into the static tables, so that a caller
   writing or freeing it never touches the catalog. *)
C8_Claim ==
    /\ (call.op \in CatalogOps /\ call.ret # 0) => call.out.list.region = "heap"
    /\ held.region # "static"
    /\ tables = StaticTables
    /\ ~crashed

\* the list the claim expects for a family: newest tier first
TierList(f) ==
    IF f >= AMDGPU_FAMILY_GC_12_0_0 THEN amd_tiled_modifiers_gfx12_init
    ELSE IF f >= AMDGPU_FAMILY_NV THEN amd_tiled_modifiers_gfx10_init
    ELSE IF f >= AMDGPU_FAMILY_AI THEN amd_tiled_modifiers_init
    ELSE << DRM_FORMAT_MOD_INVALID >>

Elems(list) == {list[i] : i \in DOMAIN list}

(* C9: for every family and format, amdgpu_dri3_get_modifiers and
   amdgpu_dri3_get_drawable_modifiers return the same list, that of the newest
   tier (legacy, AI, NV, GC-12) whose threshold the family meets; it begins with
   the linear sentinel, is exactly [sentinel] below the AI threshold, and from
   the GC-12 threshold on holds a tile tag the below-AI list lacks. *)
C9_TieredModifiers ==
    (call.op \in {"get_modifiers", "get_drawable_modifiers"} /\ call.ret # 0) =>
       LET list == Deref(call.out.list) IN
       /\ list = TierList(family)
       /\ call.out.num = Len(list)
       /\ list[1] = DRM_FORMAT_MOD_INVALID
       /\ family < AMDGPU_FAMILY_AI => list = << DRM_FORMAT_MOD_INVALID >>
       /\ family >= AMDGPU_FAMILY_GC_12_0_0 =>
             \E t \in Elems(list) : t \notin Elems(TierList(AMDGPU_FAMILY_AI - 1))

C9_Witness ==
    /\ call.op = "get_drawable_modifiers"
    /\ family >= AMDGPU_FAMILY_GC_12_0_0
    /\ call.ret # 0
    /\ Deref(call.out.list) = amd_tiled_modifiers_gfx12_init
    /\ Len(Deref(call.out.list)) = 2

\* the round trip on the direct path, with a linear descriptor
DirectLinearTrip == ~use_glamor /\ rt.modifier = DRM_FORMAT_MOD_INVALID

(* C10, as claimed: importing a descriptor the multi-fd export produced (direct
   path, linear) succeeds, and the re-export of the imported surface reports the
   same stride and modifier. *)
C10_Original ==
    /\ (rt.stage = "imported" /\ DirectLinearTrip) => call.ret # NULL
    /\ (rt.stage = "reexported" /\ DirectLinearTrip)
          => /\ call.ret = 1
             /\ call.out.strides[1] = rt.stride
             /\ call.out.modifier = rt.modifier

\* the steps of the direct import that can refuse the request in `call`
ImportRefused ==
    \/ call.args.depth < 8
    \/ call.args.bpp \notin {8, 16, 32}
    \/ \E i \in DOMAIN Tr : Tr[i].c = "CreatePixmap" /\ Tr[i].p = NULL
    \/ HasS("ModifyPixmapHeader", "FALSE")
    \/ HasS("SetSharedPixmapBacking", "FALSE")

\* the steps of the direct export that can fail on a surface that has a buffer
ExportRefused ==
    \E i \in DOMAIN Tr :
       Tr[i].c \in {"amdgpu_bo_query_info", "amdgpu_bo_export"} /\ Tr[i].n < 0

(* C10, amended: on the direct, linear case, importing the descriptor (one
   plane, stride s, modifier m) that the multi-fd export produced returns null,
   leaving no surface of the call alive, exactly when the request's depth is
   below 8, its bpp is not 8, 16 or 32, or CreatePixmap, ModifyPixmapHeader or
   SetSharedPixmapBacking fails; otherwise it yields a live surface of stride s
   that carries the buffer.  The multi-fd export of that surface always finds
   the buffer; it returns -1 and reports nothing exactly when
   amdgpu_bo_query_info or amdgpu_bo_export fails, and otherwise returns 1
   plane with stride s and modifier m: it never reports another stride or
   modifier. *)
C10_Amended ==
    /\ (rt.stage = "imported" /\ DirectLinearTrip) =>
          /\ call.op = "pixmap_from_fds"
          /\ call.args.strides = << rt.stride >>
          /\ (call.ret = NULL) <=> ImportRefused
          /\ call.ret = NULL => \A p \in CreatedInCall : ~pixmaps[p].live
          /\ call.ret # NULL =>
                /\ pixmaps[call.ret].live
                /\ pixmaps[call.ret].devKind = rt.stride
                /\ pixmaps[call.ret].bo = "kernel"
    /\ (rt.stage = "reexported" /\ DirectLinearTrip) =>
          /\ call.op = "fds_from_pixmap"
          /\ HasS("amdgpu_get_pixmap_bo", "kernel")
          /\ (call.ret = -1) <=> ExportRefused
          /\ call.ret = -1 => call.out = NoFdsOut
          /\ call.ret # -1 =>
                /\ call.ret = 1
                /\ call.out.strides = << rt.stride >>
                /\ call.out.modifier = rt.modifier

C10_Witness ==
    /\ rt.stage = "reexported"
    /\ DirectLinearTrip
    /\ rt.stride = UINT16_MAX + 1
    /\ call.op = "fds_from_pixmap"
    /\ call.ret = 1
    /\ call.out.strides[1] = rt.stride
    /\ call.out.modifier = DRM_FORMAT_MOD_INVALID

============================================================================
